---- MODULE Spec2Model ----
(***************************************************************************)
(* A model of gen/generator.go: the batch run of main(), renderTemplate    *)
(* with its two-state merge of a prior destination file, and the pure     *)
(* helpers (SnakeCase, getTemplateSection).                                *)
(*                                                                         *)
(* Strings are sequences of tokens; a token stands for a fixed piece of    *)
(* text ("Host", " ", "-", "_", ".go", ...), so concatenation of strings   *)
(* is concatenation of sequences.  A text (a file's content, a rendered    *)
(* buffer) is the sequence of lines bufio.Scanner yields for it; a line is *)
(* a record [k, s]: k = "begin" for a line on which the regular expression *)
(* //template:begin\s(.*?)$ matches, with s the captured name (possibly     *)
(* empty), k = "end" likewise for //template:end\s(.*?)$, and k = "plain"  *)
(* for a line neither expression matches, with s its text.                 *)
(***************************************************************************)
EXTENDS Integers, Sequences, FiniteSets, TLC

VARIABLES
    docs,               \* the schema documents of definitionsPath, in ReadDir order
    tbody,              \* the body of the templates (after the build directive line)
    disk,               \* the filesystem: destination path -> text, or NoFile
    pc,                 \* main(): "load", "entity", "provider", "changelog", "done", "fatal"
    configs,            \* main(): the loaded configs (their names)
    i,                  \* main(): index of the document or config at hand
    k,                  \* main(): index into templates
    providerConfig,     \* main(): the names collected for provider.go
    rpc,                \* renderTemplate: "idle", "open", "parse", "execute", "existing",
                        \*                 "scan", "create", "write", "return"
    tpath,              \* renderTemplate: templatePath
    opath,              \* renderTemplate: outputPath
    cfg,                \* renderTemplate: config
    temp,               \* renderTemplate: the template text read from the file
    output,             \* renderTemplate: the buffer `output`
    existing,           \* renderTemplate: the lines of existingFile, or NoFile
    pos,                \* renderTemplate: lines of existingFile consumed by existingScanner
    currentSectionName, \* renderTemplate: the open section, <<>> when outside
    newContent,         \* renderTemplate: the merged text so far
    created,            \* the log of os.Create calls that succeeded: [tpath, opath, cfg]
    unterminated,       \* destinations whose scan ended inside a section
    shortWrites,        \* f.Write calls that failed
    runNo,              \* the number of the run (a later run repeats the same inputs)
    yamlConfig,         \* augmentConfig: the YamlConfig `config` points to
    history,            \* the values of the config: as loaded, then after each augmentConfig
    attrModelName,      \* augmentAttribute: attr.ModelName of the attribute being named
    remainder,          \* augmentAttribute: the loop variable s, what is left of ModelName
    derivedWords,       \* augmentAttribute: the slice `words`
    attrTfName,         \* augmentAttribute: attr.TfName
    dpc,                \* augmentAttribute: "idle", "start", "loop", "done"
    earlier             \* the earlier runs: whether renderTemplate merged a prior file

vars == << docs, tbody, disk, pc, configs, i, k, providerConfig,
           rpc, tpath, opath, cfg, temp, output, existing, pos,
           currentSectionName, newContent, created, unterminated,
           shortWrites, runNo, yamlConfig, history, attrModelName,
           remainder, derivedWords, attrTfName, dpc, earlier >>

\* The state of augmentConfig and augmentAttribute
augVars == << yamlConfig, history, attrModelName, remainder, derivedWords,
             attrTfName, dpc >>


---------------------------------------------------------------------------
(* Bounds of the model *)

MaxDocs == 2
MaxPrior == 3
MaxRendered == 4
MaxNameLen == 3
MaxShortWrites == 1
MaxRuns == 2
MaxIdLen == 4
MaxSiblings == 2
MaxAugments == 2

---------------------------------------------------------------------------
(* Strings *)

RECURSIVE Concat(_)
Concat(ss) == IF ss = <<>> THEN <<>> ELSE Head(ss) \o Concat(Tail(ss))

SeqsUpTo(S, n) == UNION { [1..m -> S] : m \in 0..n }

\* strings.ToLower on one token
ToLowerToken(c) ==
    CASE c = "Host" -> "host"
      [] c = "Test" -> "test"
      [] c = "A" -> "a"
      [] c = "B" -> "b"
      [] c = "H" -> "h"
      [] c = "I" -> "i"
      [] c = "P" -> "p"
      [] c = "S" -> "s"
      [] c = "T" -> "t"
      [] OTHER -> c

ToLower(s) == [j \in 1..Len(s) |-> ToLowerToken(s[j])]

\* strings.ReplaceAll(s, "-", " ")
ReplaceDash(s) == [j \in 1..Len(s) |-> IF s[j] = "-" THEN " " ELSE s[j]]

\* strings.Fields: the maximal runs of non-space tokens
RECURSIVE FieldsFrom(_, _, _)
FieldsFrom(s, j, word) ==
    IF j > Len(s)
    THEN (IF word = <<>> THEN <<>> ELSE <<word>>)
    ELSE IF s[j] = " "
         THEN (IF word = <<>> THEN <<>> ELSE <<word>>) \o FieldsFrom(s, j + 1, <<>>)
         ELSE FieldsFrom(s, j + 1, Append(word, s[j]))

Fields(s) == FieldsFrom(s, 1, <<>>)

\* strings.Join
RECURSIVE Join(_, _)
Join(words, sep) ==
    IF words = <<>> THEN <<>>
    ELSE IF Len(words) = 1 THEN words[1]
    ELSE words[1] \o sep \o Join(Tail(words), sep)

SnakeCase(s) ==
    LET p == Fields(ReplaceDash(s))
        g == [j \in 1..Len(p) |-> ToLower(p[j])]
    IN  Join(g, <<"_">>)

HasSuffix(s, suffix) ==
    /\ Len(s) >= Len(suffix)
    /\ SubSeq(s, Len(s) - Len(suffix) + 1, Len(s)) = suffix

---------------------------------------------------------------------------
(* The output kinds *)

templates == <<
    [path |-> <<"./gen/templates/model", ".go">>,
     prefix |-> <<"./internal/provider/model_fmc_">>, suffix |-> <<".go">>],
    [path |-> <<"./gen/templates/data_source", ".go">>,
     prefix |-> <<"./internal/provider/data_source_fmc_">>, suffix |-> <<".go">>],
    [path |-> <<"./gen/templates/data_source", "_", "test", ".go">>,
     prefix |-> <<"./internal/provider/data_source_fmc_">>, suffix |-> <<"_", "test", ".go">>],
    [path |-> <<"./gen/templates/resource", ".go">>,
     prefix |-> <<"./internal/provider/resource_fmc_">>, suffix |-> <<".go">>],
    [path |-> <<"./gen/templates/resource", "_", "test", ".go">>,
     prefix |-> <<"./internal/provider/resource_fmc_">>, suffix |-> <<"_", "test", ".go">>],
    [path |-> <<"./gen/templates/data-source", ".tf">>,
     prefix |-> <<"./examples/data-sources/fmc_">>, suffix |-> <<"/data-source.tf">>],
    [path |-> <<"./gen/templates/resource", ".tf">>,
     prefix |-> <<"./examples/resources/fmc_">>, suffix |-> <<"/resource.tf">>],
    [path |-> <<"./gen/templates/import", ".sh">>,
     prefix |-> <<"./examples/resources/fmc_">>, suffix |-> <<"/import.sh">>] >>

providerTemplate == <<"./gen/templates/provider", ".go">>
providerLocation == <<"./internal/provider/provider", ".go">>
changelogTemplate == <<"./gen/templates/changelog.md", ".tmpl">>
changelogLocation == <<"./templates/guides/changelog.md", ".tmpl">>

\* OutputPath without the suffix of the output kind
OutputPath_noSuffix(t, name) == t.prefix \o SnakeCase(name)

\* t.prefix + SnakeCase(configs[i].Name) + t.suffix
OutputPath(t, name) == t.prefix \o SnakeCase(name) \o t.suffix

\* strings.HasSuffix(templatePath, ".go")
IsGoTemplate(path) == HasSuffix(path, <<".go">>)

---------------------------------------------------------------------------
(* Lines and texts *)

Plain(s) == [k |-> "plain", s |-> s]
Begin(n) == [k |-> "begin", s |-> n]
End(n) == [k |-> "end", s |-> n]

\* A file of the filesystem: absent, or present with its lines
NoFile == [exists |-> FALSE, text |-> <<>>]
File(text) == [exists |-> TRUE, text |-> text]

\* beginRegex.FindStringSubmatch(line) of renderTemplate: the whole match and
\* the captured name, or nothing
BeginSubmatch(line) == IF line.k = "begin" THEN <<line, line.s>> ELSE <<>>

\* endRegex.FindStringSubmatch(line) of renderTemplate
EndSubmatch(line) == IF line.k = "end" THEN <<line, line.s>> ELSE <<>>

\* beginRegex.MatchString(line) of getTemplateSection, the expression ending
\* in the section's name
BeginMatch(line, name) == line.k = "begin" /\ line.s = name

\* endRegex.MatchString(line) of getTemplateSection
EndMatch(line, name) == line.k = "end" /\ line.s = name

RECURSIVE SectionScan(_, _, _, _, _)
SectionScan(content, name, j, foundSection, result) ==
    IF j > Len(content) THEN result
    ELSE LET line == content[j] IN
         IF ~foundSection
         THEN IF BeginMatch(line, name)
              THEN SectionScan(content, name, j + 1, TRUE, Append(result, line))
              ELSE SectionScan(content, name, j + 1, FALSE, result)
         ELSE SectionScan(content, name, j + 1, ~EndMatch(line, name),
                          Append(result, line))

getTemplateSection(content, name) == SectionScan(content, name, 1, FALSE, <<>>)

\* ScanStep with the section of R taken where the section opens, not where it
\* closes
ScanStep_insertAtBegin(line, cur, acc, out) ==
    IF cur = <<>>
    THEN LET matches == BeginSubmatch(line) IN
         IF Len(matches) > 1 /\ matches[2] # <<>>
         THEN [cur |-> matches[2], acc |-> acc \o getTemplateSection(out, matches[2])]
         ELSE [cur |-> cur, acc |-> Append(acc, line)]
    ELSE LET matches == EndSubmatch(line) IN
         IF Len(matches) > 1 /\ matches[2] = cur
         THEN [cur |-> <<>>, acc |-> acc]
         ELSE [cur |-> cur, acc |-> acc]

\* ScanStep without the test for an empty name: a begin-marker without a name
\* opens the section "" and is not copied
ScanStep_anyBeginOpens(line, cur, acc, out) ==
    IF cur = <<>>
    THEN LET matches == BeginSubmatch(line) IN
         IF Len(matches) > 1
         THEN [cur |-> matches[2], acc |-> acc]
         ELSE [cur |-> cur, acc |-> Append(acc, line)]
    ELSE LET matches == EndSubmatch(line) IN
         IF Len(matches) > 1 /\ matches[2] = cur
         THEN [cur |-> <<>>, acc |-> acc \o getTemplateSection(out, matches[2])]
         ELSE [cur |-> cur, acc |-> acc]

\* ScanStep with a begin-marker inside a section opening the section it names
ScanStep_beginReopens(line, cur, acc, out) ==
    IF cur = <<>>
    THEN LET matches == BeginSubmatch(line) IN
         IF Len(matches) > 1 /\ matches[2] # <<>>
         THEN [cur |-> matches[2], acc |-> acc]
         ELSE [cur |-> cur, acc |-> Append(acc, line)]
    ELSE LET matches == EndSubmatch(line) IN
         IF Len(matches) > 1 /\ matches[2] = cur
         THEN [cur |-> <<>>, acc |-> acc \o getTemplateSection(out, matches[2])]
         ELSE IF Len(BeginSubmatch(line)) > 1 /\ BeginSubmatch(line)[2] # <<>>
              THEN [cur |-> BeginSubmatch(line)[2], acc |-> acc]
              ELSE [cur |-> cur, acc |-> acc]

\* One turn of the loop over existingScanner: the section name and the merged
\* text after `line`, given the rendered buffer `out`
ScanStep(line, cur, acc, out) ==
    IF cur = <<>>
    THEN LET matches == BeginSubmatch(line) IN
         IF Len(matches) > 1 /\ matches[2] # <<>>
         THEN [cur |-> matches[2], acc |-> acc]
         ELSE [cur |-> cur, acc |-> Append(acc, line)]
    ELSE LET matches == EndSubmatch(line) IN
         IF Len(matches) > 1 /\ matches[2] = cur
         THEN [cur |-> <<>>, acc |-> acc \o getTemplateSection(out, matches[2])]
         ELSE [cur |-> cur, acc |-> acc]

---------------------------------------------------------------------------
(* Templates and their execution *)

\* The first line of a Go template, which renderTemplate skips
BuildDirective == Plain(<<"//go:build ignore">>)

\* The line of a template body that prints the config
Placeholder == Plain(<<"{{.}}">>)

\* The template file at `path`
TemplateFile(path, body) ==
    IF IsGoTemplate(path) THEN <<BuildDirective>> \o body ELSE body

\* The lines renderTemplate reads into `temp`
ReadTemplate(path, file) ==
    IF IsGoTemplate(path) /\ file # <<>> THEN Tail(file) ELSE file

\* A YamlConfig by the fields augmentConfig reads and writes
YamlConfig(name, ds, res, attributes) ==
    [Name |-> name, DsDescription |-> ds, ResDescription |-> res,
     Attributes |-> attributes]

\* YamlConfig{}
NoYamlConfig == YamlConfig(<<>>, <<>>, <<>>, <<>>)

NoConfig == [kind |-> "none", val |-> <<>>]
EntityConfig(name) == [kind |-> "entity", val |-> <<name>>]
NamesConfig(names) == [kind |-> "names", val |-> names]
TextConfig == [kind |-> "text", val |-> << <<"changelog">> >>]

\* template.Execute: the placeholder line prints every value of the config
Execute(text, config) ==
    Concat([j \in 1..Len(text) |->
              IF text[j] = Placeholder
              THEN [m \in 1..Len(config.val) |-> Plain(config.val[m])]
              ELSE <<text[j]>>])

---------------------------------------------------------------------------
(* renderTemplate *)

Fatal == pc' = "fatal"

\* The call renderTemplate(path, out, config)
Call(path, out, config) ==
    /\ rpc' = "open"
    /\ tpath' = path
    /\ opath' = out
    /\ cfg' = config
    /\ temp' = <<>>
    /\ output' = <<>>
    /\ existing' = NoFile
    /\ pos' = 0
    /\ currentSectionName' = <<>>
    /\ newContent' = <<>>

frame == << tpath, opath, cfg >>
scan == << existing, pos, currentSectionName, newContent >>
run == << docs, tbody, configs, i, k, providerConfig, runNo >>
logs == << created, unterminated, shortWrites >>

\* os.Open(templatePath) and the loop that reads the template
RT_Open ==
    /\ pc # "fatal" /\ rpc = "open"
    /\ \E ok \in BOOLEAN :
         IF ok
         THEN /\ temp' = ReadTemplate(tpath, TemplateFile(tpath, tbody))
              /\ rpc' = "parse"
              /\ pc' = pc
         ELSE /\ Fatal
              /\ UNCHANGED << temp, rpc >>
    /\ UNCHANGED << run, disk, frame, output, scan, logs >>
    /\ UNCHANGED << augVars, earlier >>

\* RT_Parse with the destination created before the template is parsed
RT_Parse_createsFirst ==
    /\ pc # "fatal" /\ rpc = "parse"
    /\ disk' = [disk EXCEPT ![opath] = File(<<>>)]
    /\ \E ok \in BOOLEAN :
         IF ok
         THEN rpc' = "execute" /\ pc' = pc
         ELSE Fatal /\ rpc' = rpc
    /\ UNCHANGED << run, frame, temp, output, scan, logs >>
    /\ UNCHANGED << augVars, earlier >>

\* template.New(...).Parse(temp)
RT_Parse ==
    /\ pc # "fatal" /\ rpc = "parse"
    /\ \E ok \in BOOLEAN :
         IF ok
         THEN rpc' = "execute" /\ pc' = pc
         ELSE Fatal /\ rpc' = rpc
    /\ UNCHANGED << run, disk, frame, temp, output, scan, logs >>
    /\ UNCHANGED << augVars, earlier >>

\* template.Execute(output, config)
RT_Execute ==
    /\ pc # "fatal" /\ rpc = "execute"
    /\ \E ok \in BOOLEAN :
         IF ok
         THEN /\ output' = Execute(temp, cfg)
              /\ rpc' = "existing"
              /\ pc' = pc
         ELSE /\ Fatal
              /\ UNCHANGED << output, rpc >>
    /\ UNCHANGED << run, disk, frame, temp, scan, logs >>
    /\ UNCHANGED << augVars, earlier >>

\* Merges without the test of the template's suffix
Merges_anyTemplate(path, file) == file.exists

\* Whether renderTemplate merges: the destination opens and the template is Go's
Merges(path, file) == file.exists /\ IsGoTemplate(path)

\* os.Open(outputPath) and the choice between merging and taking the buffer
RT_OpenExisting ==
    /\ pc # "fatal" /\ rpc = "existing"
    /\ existing' = disk[opath]
    /\ pos' = 0
    /\ currentSectionName' = <<>>
    /\ newContent' = <<>>
    /\ rpc' = IF Merges(tpath, disk[opath]) THEN "scan" ELSE "create"
    /\ UNCHANGED << run, disk, pc, frame, temp, output, logs >>
    /\ UNCHANGED << augVars, earlier >>

\* One turn of the loop over existingScanner
RT_ScanLine ==
    /\ pc # "fatal" /\ rpc = "scan"
    /\ pos < Len(existing.text)
    /\ LET r == ScanStep(existing.text[pos + 1], currentSectionName, newContent, output)
       IN  /\ currentSectionName' = r.cur
           /\ newContent' = r.acc
    /\ pos' = pos + 1
    /\ UNCHANGED << run, disk, pc, rpc, frame, temp, output, existing, logs >>
    /\ UNCHANGED << augVars, earlier >>

\* The end of the loop: output = bytes.NewBufferString(newContent)
RT_ScanEnd ==
    /\ pc # "fatal" /\ rpc = "scan"
    /\ pos = Len(existing.text)
    /\ output' = newContent
    /\ unterminated' = IF currentSectionName # <<>>
                       THEN unterminated \cup {opath} ELSE unterminated
    /\ rpc' = "create"
    /\ UNCHANGED << run, disk, pc, frame, temp, scan, created, shortWrites >>
    /\ UNCHANGED << augVars, earlier >>

\* os.Create(outputFile): the destination is created or truncated
RT_Create ==
    /\ pc # "fatal" /\ rpc = "create"
    /\ \E ok \in BOOLEAN :
         IF ok
         THEN /\ disk' = [disk EXCEPT ![opath] = File(<<>>)]
              /\ created' = Append(created, [tpath |-> tpath, opath |-> opath, cfg |-> cfg])
              /\ rpc' = "write"
              /\ pc' = pc
         ELSE /\ Fatal
              /\ UNCHANGED << disk, created, rpc >>
    /\ UNCHANGED << run, frame, temp, output, scan, unterminated, shortWrites >>
    /\ UNCHANGED << augVars, earlier >>

\* f.Write(output.Bytes()), whose result is dropped
RT_Write ==
    /\ pc # "fatal" /\ rpc = "write"
    /\ \/ /\ disk' = [disk EXCEPT ![opath] = File(output)]
          /\ shortWrites' = shortWrites
       \/ /\ shortWrites < MaxShortWrites
          /\ \E n \in 0..(Len(output) - 1) :
               disk' = [disk EXCEPT ![opath] = File(SubSeq(output, 1, n))]
          /\ shortWrites' = shortWrites + 1
    /\ rpc' = "return"
    /\ UNCHANGED << run, pc, frame, temp, output, scan, created, unterminated >>
    /\ UNCHANGED << augVars, earlier >>

RenderStep ==
    \/ RT_Open
    \/ RT_Parse
    \/ RT_Execute
    \/ RT_OpenExisting
    \/ RT_ScanLine
    \/ RT_ScanEnd
    \/ RT_Create
    \/ RT_Write

---------------------------------------------------------------------------
(* main *)

renderVars == << rpc, tpath, opath, cfg, temp, output, existing, pos,
                 currentSectionName, newContent >>

\* Where main goes after the loading loop
AfterLoad(n) == IF n = 0 THEN "provider" ELSE "entity"

\* M_LoadConfig with a document that does not parse passed over
M_LoadConfig_skipsMalformed ==
    /\ pc = "load" /\ i <= Len(docs)
    /\ \E readOk \in BOOLEAN :
         IF readOk
         THEN /\ configs' = IF docs[i].ok THEN Append(configs, docs[i].name) ELSE configs
              /\ i' = IF i = Len(docs) THEN 1 ELSE i + 1
              /\ pc' = IF i = Len(docs) THEN AfterLoad(Len(configs')) ELSE "load"
         ELSE /\ Fatal
              /\ UNCHANGED << configs, i >>
    /\ UNCHANGED << docs, tbody, disk, k, providerConfig, runNo,
                    renderVars, logs >>
    /\ UNCHANGED << augVars, earlier >>

\* One turn of the loop that loads the configs
M_LoadConfig ==
    /\ pc = "load" /\ i <= Len(docs)
    /\ \E readOk \in BOOLEAN :
         IF readOk /\ docs[i].ok
         THEN /\ configs' = Append(configs, docs[i].name)
              /\ i' = IF i = Len(docs) THEN 1 ELSE i + 1
              /\ pc' = IF i = Len(docs) THEN AfterLoad(Len(docs)) ELSE "load"
         ELSE /\ Fatal
              /\ UNCHANGED << configs, i >>
    /\ UNCHANGED << docs, tbody, disk, k, providerConfig, runNo,
                    renderVars, logs >>
    /\ UNCHANGED << augVars, earlier >>

\* The loop over no document at all
M_LoadNone ==
    /\ pc = "load" /\ Len(docs) = 0
    /\ pc' = AfterLoad(0)
    /\ UNCHANGED << docs, tbody, disk, configs, i, k, providerConfig,
                    runNo, renderVars, logs >>
    /\ UNCHANGED << augVars, earlier >>

\* renderTemplate(t.path, t.prefix+SnakeCase(configs[i].Name)+t.suffix, configs[i])
M_RenderEntity ==
    /\ pc = "entity" /\ rpc = "idle"
    /\ Call(templates[k].path, OutputPath(templates[k], configs[i]),
            EntityConfig(configs[i]))
    /\ UNCHANGED << run, disk, pc, logs >>
    /\ UNCHANGED << augVars, earlier >>

\* CollectName with the name put in front
CollectName_prepend(names, name) == <<name>> \o names

\* The names provider.go is rendered over, once configs[i] is done
CollectName(names, name) == Append(names, name)

\* The return of renderTemplate into the loop over templates
M_EntityReturn ==
    /\ pc = "entity" /\ rpc = "return"
    /\ rpc' = "idle"
    /\ IF k < Len(templates)
       THEN /\ k' = k + 1
            /\ UNCHANGED << i, providerConfig, pc >>
       ELSE /\ k' = 1
            /\ providerConfig' = CollectName(providerConfig, configs[i])
            /\ i' = i + 1
            /\ pc' = IF i = Len(configs) THEN "provider" ELSE "entity"
    /\ UNCHANGED << docs, tbody, configs, runNo, disk, frame, temp,
                    output, scan, logs >>
    /\ UNCHANGED << augVars, earlier >>

\* renderTemplate(providerTemplate, providerLocation, providerConfig)
M_RenderProvider ==
    /\ pc = "provider" /\ rpc = "idle"
    /\ Call(providerTemplate, providerLocation, NamesConfig(providerConfig))
    /\ UNCHANGED << run, disk, pc, logs >>
    /\ UNCHANGED << augVars, earlier >>

\* os.ReadFile(changelogOriginal), after provider.go
M_ReadChangelog ==
    /\ pc = "provider" /\ rpc = "return"
    /\ rpc' = "idle"
    /\ \E ok \in BOOLEAN : pc' = IF ok THEN "changelog" ELSE "fatal"
    /\ UNCHANGED << run, disk, frame, temp, output, scan, logs >>
    /\ UNCHANGED << augVars, earlier >>

\* renderTemplate(changelogTemplate, changelogLocation, string(changelog))
M_RenderChangelog ==
    /\ pc = "changelog" /\ rpc = "idle"
    /\ Call(changelogTemplate, changelogLocation, TextConfig)
    /\ UNCHANGED << run, disk, pc, logs >>
    /\ UNCHANGED << augVars, earlier >>

\* The end of main
M_Done ==
    /\ pc = "changelog" /\ rpc = "return"
    /\ rpc' = "idle"
    /\ pc' = "done"
    /\ UNCHANGED << run, disk, frame, temp, output, scan, logs >>
    /\ UNCHANGED << augVars, earlier >>

---------------------------------------------------------------------------
(* The run of the generator *)

SectionA == <<"a">>
SectionB == <<"b">>

\* The names an entity may carry
EntityNames == { <<"Host">>, <<"Host", " ", "Test">> }

\* A schema document: one that parses, with its name, or a malformed one
Documents ==
    { [ok |-> TRUE, name |-> n] : n \in EntityNames } \cup { [ok |-> FALSE, name |-> <<>>] }

\* The template bodies of a run: a section that prints the config, terminated or not
TemplateBodies ==
    { << Begin(SectionA), Placeholder, End(SectionA) >>,
      << Begin(SectionA), Placeholder >> }

\* The prior content of a destination: a hand-written line and a section, terminated or not
PriorTexts ==
    { << Plain(<<"x">>), Begin(SectionA), Plain(<<"old">>), End(SectionA) >>,
      << Plain(<<"x">>), Begin(SectionA), Plain(<<"old">>) >> }

\* The destinations of a run
Destinations(ds) ==
    { OutputPath(templates[t], ds[j].name) : t \in 1..Len(templates), j \in 1..Len(ds) }
        \cup { providerLocation, changelogLocation }

\* No config is being augmented
InitNoAugment ==
    /\ yamlConfig = NoYamlConfig
    /\ history = <<>>
    /\ attrModelName = <<>>
    /\ remainder = <<>>
    /\ derivedWords = <<>>
    /\ attrTfName = <<>>
    /\ dpc = "idle"

InitIdle ==
    /\ earlier = <<>>
    /\ rpc = "idle"
    /\ tpath = <<>>
    /\ opath = <<>>
    /\ cfg = NoConfig
    /\ temp = <<>>
    /\ output = <<>>
    /\ existing = NoFile
    /\ pos = 0
    /\ currentSectionName = <<>>
    /\ newContent = <<>>

Init ==
    /\ docs \in SeqsUpTo(Documents, MaxDocs)
    /\ tbody \in TemplateBodies
    /\ \/ disk = [d \in Destinations(docs) |-> NoFile]
       \/ \E p \in Destinations(docs), e \in PriorTexts :
            disk = [d \in Destinations(docs) |-> IF d = p THEN File(e) ELSE NoFile]
    /\ pc = "load"
    /\ configs = <<>>
    /\ i = 1
    /\ k = 1
    /\ providerConfig = <<>>
    /\ InitIdle
    /\ created = <<>>
    /\ unterminated = {}
    /\ shortWrites = 0
    /\ runNo = 1
    /\ InitNoAugment

Next ==
    \/ M_LoadConfig
    \/ M_LoadNone
    \/ M_RenderEntity
    \/ M_EntityReturn
    \/ M_RenderProvider
    \/ M_ReadChangelog
    \/ M_RenderChangelog
    \/ M_Done
    \/ RenderStep

Spec == Init /\ [][Next]_vars

---------------------------------------------------------------------------
(* One destination, every rendered text and every prior file *)

\* The lines of a rendered text
RenderedLines ==
    { Plain(<<"r">>), Begin(SectionA), End(SectionA), Begin(SectionB), End(SectionB) }

\* The lines of a prior file; Begin(<<>>) is a begin-marker with an empty name
PriorLines ==
    { Plain(<<"x">>), Begin(SectionA), End(SectionA), Begin(SectionB), End(SectionB),
      Begin(<<>>) }

\* renderTemplate for the entity "Host" and a Go template or a plain one, at the
\* point where the template has been executed
InitMerge ==
    /\ docs = << [ok |-> TRUE, name |-> <<"Host">>] >>
    /\ configs = << <<"Host">> >>
    /\ pc = "entity"
    /\ i = 1
    /\ k \in {1, 6}
    /\ providerConfig = <<>>
    /\ tbody \in SeqsUpTo(RenderedLines, MaxRendered)
    /\ tpath = templates[k].path
    /\ opath = OutputPath(templates[k], configs[i])
    /\ cfg = EntityConfig(configs[i])
    /\ temp = ReadTemplate(tpath, TemplateFile(tpath, tbody))
    /\ output = Execute(temp, cfg)
    /\ rpc = "existing"
    /\ existing = NoFile
    /\ pos = 0
    /\ currentSectionName = <<>>
    /\ newContent = <<>>
    /\ \E prior \in {NoFile} \cup { File(e) : e \in SeqsUpTo(PriorLines, MaxPrior) } :
         disk = [d \in {opath} |-> prior]
    /\ created = <<>>
    /\ unterminated = {}
    /\ shortWrites = 0
    /\ runNo = 1
    /\ InitNoAugment
    /\ earlier = <<>>

\* The next run of the generator, templates and schema unchanged, at the same point
Rerender ==
    /\ pc # "fatal" /\ rpc = "return"
    /\ runNo < MaxRuns
    /\ runNo' = runNo + 1
    /\ output' = Execute(temp, cfg)
    /\ rpc' = "existing"
    /\ existing' = NoFile
    /\ pos' = 0
    /\ currentSectionName' = <<>>
    /\ newContent' = <<>>
    /\ UNCHANGED << docs, tbody, configs, i, k, providerConfig, disk, pc, frame,
                    temp, logs >>
    /\ earlier' = Append(earlier, [merged |-> Merges(tpath, existing)])
    /\ UNCHANGED augVars

NextMerge ==
    \/ RT_OpenExisting
    \/ RT_ScanLine
    \/ RT_ScanEnd
    \/ RT_Create
    \/ RT_Write
    \/ Rerender

SpecMerge == InitMerge /\ [][NextMerge]_vars

---------------------------------------------------------------------------
(* The destinations of two entities, every name *)

\* The tokens of an entity's name
NameTokens == { "Host", "host", " ", "-", "_", "test" }

\* The loop over templates for configs[i], each renderTemplate call taken to
\* its os.Create
M_EntityFiles ==
    /\ pc = "entity" /\ rpc = "idle"
    /\ created' = created \o
           [t \in 1..Len(templates) |->
               [tpath |-> templates[t].path,
                opath |-> OutputPath(templates[t], configs[i]),
                cfg |-> EntityConfig(configs[i])]]
    /\ providerConfig' = CollectName(providerConfig, configs[i])
    /\ i' = i + 1
    /\ pc' = IF i = Len(configs) THEN "provider" ELSE "entity"
    /\ UNCHANGED << docs, tbody, disk, configs, k, runNo, renderVars,
                    unterminated, shortWrites >>
    /\ UNCHANGED << augVars, earlier >>

\* main after the loading loop, two entities loaded
InitNames ==
    /\ \E n1, n2 \in SeqsUpTo(NameTokens, MaxNameLen) :
         docs = << [ok |-> TRUE, name |-> n1], [ok |-> TRUE, name |-> n2] >>
    /\ configs = << docs[1].name, docs[2].name >>
    /\ tbody = <<>>
    /\ disk = [d \in Destinations(docs) |-> NoFile]
    /\ pc = "entity"
    /\ i = 1
    /\ k = 1
    /\ providerConfig = <<>>
    /\ InitIdle
    /\ created = <<>>
    /\ unterminated = {}
    /\ shortWrites = 0
    /\ runNo = 1
    /\ InitNoAugment

NextNames == M_EntityFiles

SpecNames == InitNames /\ [][NextNames]_vars

---------------------------------------------------------------------------
(* augmentAttribute and augmentConfig *)

\* The one-letter tokens that are upper case letters
UpperChars == { "A", "B", "H", "I", "P", "S", "T" }

\* unicode.IsUpper
IsUpper(c) == c \in UpperChars

\* strings.IndexFunc(str, unicode.IsUpper): the index, from 0, of the first
\* upper case letter of str, or -1
IndexUpper(str) ==
    LET found == { j \in 1..Len(str) : IsUpper(str[j]) }
    IN  IF found = {} THEN -1
        ELSE (CHOOSE j \in found : \A m \in found : j <= m) - 1

\* WordLen with the search started at the first letter of str
WordLen_fromFirst(str) ==
    LET l == IndexUpper(str) + 1
    IN  IF l <= 0 THEN Len(str) ELSE l

\* WordLen with every word one letter long
WordLen_oneLetter(str) == 1

\* l = strings.IndexFunc(s[1:], unicode.IsUpper) + 1; if l <= 0 { l = len(s) },
\* for a string that is not empty
WordLen(str) ==
    LET l == IndexUpper(Tail(str)) + 1
    IN  IF l <= 0 THEN Len(str) ELSE l

\* The loop of augmentAttribute over attr.ModelName: the words it collects
RECURSIVE DeriveWords(_)
DeriveWords(str) ==
    IF str = <<>> THEN <<>>
    ELSE LET l == WordLen(str)
         IN  <<ToLower(SubSeq(str, 1, l))>> \o DeriveWords(SubSeq(str, l + 1, Len(str)))

\* strings.Join(words, "_") over the words of the loop
DerivedName(modelName) == Join(DeriveWords(modelName), <<"_">>)

\* A YamlConfigAttribute by the fields augmentAttribute reads and writes
Attribute(modelName, tfName, type, attributes) ==
    [ModelName |-> modelName, TfName |-> tfName, Type |-> type,
     Attributes |-> attributes]

\* augmentAttribute with the nested attributes augmented whatever the type
RECURSIVE augmentAttribute_anyType(_)
augmentAttribute_anyType(attr) ==
    [attr EXCEPT
        !.TfName = IF @ = <<>> THEN DerivedName(attr.ModelName) ELSE @,
        !.Attributes = [a \in 1..Len(@) |-> augmentAttribute_anyType(@[a])]]

\* augmentAttribute: the attribute it leaves behind attr
RECURSIVE augmentAttribute(_)
augmentAttribute(attr) ==
    [attr EXCEPT
        !.TfName = IF @ = <<>> THEN DerivedName(attr.ModelName) ELSE @,
        !.Attributes = IF attr.Type = "List" \/ attr.Type = "Set"
                       THEN [a \in 1..Len(@) |-> augmentAttribute(@[a])]
                       ELSE @]

\* strings.HasPrefix(name, "a") || ... || strings.HasPrefix(name, "u")
HasVowelPrefix(name) == name # <<>> /\ name[1] \in { "a", "e", "i", "o", "u" }

\* fmt.Sprintf("This data source can read the %s.", config.Name)
DsDescriptionOf(name) == <<"This data source can read the ">> \o name \o <<".">>

\* fmt.Sprintf("This resource can manage an %s.", ...) or "... a %s."
ResDescriptionOf(name) ==
    IF HasVowelPrefix(ToLower(name))
    THEN <<"This resource can manage an ">> \o name \o <<".">>
    ELSE <<"This resource can manage a ">> \o name \o <<".">>

\* augmentConfig with the sentence put before the data source's description,
\* empty or not
augmentConfig_prependsDescription(config) ==
    [config EXCEPT
        !.Attributes = [ia \in 1..Len(@) |-> augmentAttribute(@[ia])],
        !.DsDescription = DsDescriptionOf(config.Name) \o @,
        !.ResDescription = IF @ = <<>> THEN ResDescriptionOf(config.Name) ELSE @]

\* augmentConfig: the config it leaves behind the pointer
augmentConfig(config) ==
    [config EXCEPT
        !.Attributes = [ia \in 1..Len(@) |-> augmentAttribute(@[ia])],
        !.DsDescription = IF @ = <<>> THEN DsDescriptionOf(config.Name) ELSE @,
        !.ResDescription = IF @ = <<>> THEN ResDescriptionOf(config.Name) ELSE @]

\* The test of attr.TfName that opens augmentAttribute
D_Enter ==
    /\ dpc = "start"
    /\ IF attrTfName = <<>>
       THEN /\ remainder' = attrModelName
            /\ derivedWords' = <<>>
            /\ dpc' = "loop"
       ELSE /\ dpc' = "done"
            /\ UNCHANGED << remainder, derivedWords >>
    /\ UNCHANGED << attrModelName, attrTfName, yamlConfig, history >>
    /\ UNCHANGED << run, disk, pc, renderVars, logs, earlier >>

\* One turn of the loop over s
D_Word ==
    /\ dpc = "loop"
    /\ remainder # <<>>
    /\ LET l == WordLen(remainder)
       IN  /\ derivedWords' = Append(derivedWords, ToLower(SubSeq(remainder, 1, l)))
           /\ remainder' = SubSeq(remainder, l + 1, Len(remainder))
    /\ UNCHANGED << attrModelName, attrTfName, dpc, yamlConfig, history >>
    /\ UNCHANGED << run, disk, pc, renderVars, logs, earlier >>

\* The end of the loop: attr.TfName = strings.Join(words, "_")
D_Join ==
    /\ dpc = "loop"
    /\ remainder = <<>>
    /\ attrTfName' = Join(derivedWords, <<"_">>)
    /\ dpc' = "done"
    /\ UNCHANGED << attrModelName, remainder, derivedWords, yamlConfig, history >>
    /\ UNCHANGED << run, disk, pc, renderVars, logs, earlier >>

\* augmentConfig(&config)
A_AugmentConfig ==
    /\ dpc = "idle"
    /\ history # <<>>
    /\ Len(history) <= MaxAugments
    /\ yamlConfig' = augmentConfig(yamlConfig)
    /\ history' = Append(history, yamlConfig')
    /\ UNCHANGED << attrModelName, remainder, derivedWords, attrTfName, dpc >>
    /\ UNCHANGED << run, disk, pc, renderVars, logs, earlier >>

\* Nothing is being rendered: main before any call of renderTemplate
InitNoRun ==
    /\ docs = <<>>
    /\ tbody = <<>>
    /\ disk = [d \in Destinations(docs) |-> NoFile]
    /\ pc = "entity"
    /\ configs = <<>>
    /\ i = 1
    /\ k = 1
    /\ providerConfig = <<>>
    /\ InitIdle
    /\ created = <<>>
    /\ unterminated = {}
    /\ shortWrites = 0
    /\ runNo = 1

\* The letters of a model name
IdChars == { "A", "B", "a", "1" }

\* The model names: every one up to MaxIdLen letters, and the two of the
\* documentation
Identifiers ==
    SeqsUpTo(IdChars, MaxIdLen)
        \cup { <<"H", "T", "T", "P", "S", "e", "r", "v", "e", "r">>, <<"I", "d">> }

\* augmentAttribute for one attribute, its TfName given or not
InitDerive ==
    /\ InitNoRun
    /\ yamlConfig = NoYamlConfig
    /\ history = <<>>
    /\ attrModelName \in Identifiers
    /\ attrTfName \in { <<>>, <<"x">> }
    /\ remainder = <<>>
    /\ derivedWords = <<>>
    /\ dpc = "start"

NextDerive ==
    \/ D_Enter
    \/ D_Word
    \/ D_Join

SpecDerive == InitDerive /\ [][NextDerive]_vars

\* The loop runs on: augmentAttribute is straight-line code of one goroutine
SpecDeriveFair == SpecDerive /\ WF_vars(NextDerive)

\* The attributes of a config: leaves, attributes over up to MaxSiblings
\* leaves, and attributes over one of these
AttrFields(children) ==
    { Attribute(m, t, ty, c) :
        m \in { <<"a", "B">> }, t \in { <<>>, <<"x">> },
        ty \in { "String", "List", "Set" }, c \in children }

Attrs0 == AttrFields({ <<>> }) \cup { Attribute(<<>>, <<>>, "String", <<>>) }
Attrs1 == AttrFields(SeqsUpTo(Attrs0, MaxSiblings))
Attrs2 == AttrFields(SeqsUpTo(Attrs1, 1))

\* The configs as yaml.Unmarshal leaves them
YamlConfigs ==
    { YamlConfig(n, ds, res, attrs) :
        n \in { <<"H", "a">>, <<"I", "d">>, <<>> },
        ds \in { <<>>, <<"d">> },
        res \in { <<>>, <<"r">> },
        attrs \in SeqsUpTo(Attrs2, 1) }

InitAugment ==
    /\ InitNoRun
    /\ yamlConfig \in YamlConfigs
    /\ history = << yamlConfig >>
    /\ attrModelName = <<>>
    /\ remainder = <<>>
    /\ derivedWords = <<>>
    /\ attrTfName = <<>>
    /\ dpc = "idle"

NextAugment == A_AugmentConfig

SpecAugment == InitAugment /\ [][NextAugment]_vars

---------------------------------------------------------------------------
(* What the claims speak of *)

\* The merge has ended for the destination at hand: the scan ran and is over
MergeEnded ==
    /\ rpc \in {"create", "write", "return"}
    /\ existing.exists
    /\ IsGoTemplate(tpath)

\* The rendered text R of the call at hand
Rendered == Execute(temp, cfg)

RECURSIVE IsSubseq(_, _)
IsSubseq(a, b) ==
    IF a = <<>> THEN TRUE
    ELSE IF b = <<>> THEN FALSE
    ELSE IF Head(a) = Head(b) THEN IsSubseq(Tail(a), Tail(b))
    ELSE IsSubseq(a, Tail(b))

InSeq(x, sq) == \E j \in 1..Len(sq) : sq[j] = x

\* The lines of e read outside every marked section, no begin-marker with a
\* name among them, given the section `open` when line j is read
RECURSIVE OutsideFrom(_, _, _)
OutsideFrom(e, j, open) ==
    IF j > Len(e) THEN <<>>
    ELSE IF open = <<>>
         THEN IF e[j].k = "begin" /\ e[j].s # <<>>
              THEN OutsideFrom(e, j + 1, e[j].s)
              ELSE <<e[j]>> \o OutsideFrom(e, j + 1, <<>>)
         ELSE IF e[j].k = "end" /\ e[j].s = open
              THEN OutsideFrom(e, j + 1, <<>>)
              ELSE OutsideFrom(e, j + 1, open)

OutsideLines(e) == OutsideFrom(e, 1, <<>>)

\* The names of the sections of e that an end-marker closes
RECURSIVE ClosedFrom(_, _, _)
ClosedFrom(e, j, open) ==
    IF j > Len(e) THEN {}
    ELSE IF open = <<>>
         THEN IF e[j].k = "begin" /\ e[j].s # <<>>
              THEN ClosedFrom(e, j + 1, e[j].s)
              ELSE ClosedFrom(e, j + 1, <<>>)
         ELSE IF e[j].k = "end" /\ e[j].s = open
              THEN {open} \cup ClosedFrom(e, j + 1, <<>>)
              ELSE ClosedFrom(e, j + 1, open)

ClosedNames(e) == ClosedFrom(e, 1, <<>>)

\* The section e is left in at its end, <<>> when outside
RECURSIVE OpenAtEnd(_, _, _)
OpenAtEnd(e, j, open) ==
    IF j > Len(e) THEN open
    ELSE IF open = <<>>
         THEN OpenAtEnd(e, j + 1, IF e[j].k = "begin" THEN e[j].s ELSE <<>>)
         ELSE OpenAtEnd(e, j + 1, IF e[j].k = "end" /\ e[j].s = open THEN <<>> ELSE open)

Unterminated(e) == OpenAtEnd(e, 1, <<>>) # <<>>

\* The block of r for section n: from its first begin-marker through the first
\* end-marker after it; empty when r holds no such range
SectionBlock(r, n) ==
    LET begins == { b \in 1..Len(r) : r[b] = Begin(n) }
    IN  IF begins = {} THEN <<>>
        ELSE LET b == CHOOSE x \in begins : \A y \in begins : x <= y
                 ends == { x \in (b + 1)..Len(r) : r[x] = End(n) }
             IN  IF ends = {} THEN <<>>
                 ELSE SubSeq(r, b, CHOOSE x \in ends : \A y \in ends : x <= y)

\* The lines of r from any begin-marker for n through the next end-marker for
\* n, or through the end of r
InBlocks(r, n, j) ==
    \E b \in 1..j :
        /\ r[b] = Begin(n)
        /\ \A x \in (b + 1)..(j - 1) : r[x] # End(n)

RECURSIVE BlocksFrom(_, _, _)
BlocksFrom(r, n, j) ==
    IF j > Len(r) THEN <<>>
    ELSE (IF InBlocks(r, n, j) THEN <<r[j]>> ELSE <<>>) \o BlocksFrom(r, n, j + 1)

Blocks(r, n) == BlocksFrom(r, n, 1)

\* The merge of r into e as the two-state scan describes it, every closed
\* section replaced by r's block for its name (which = "block") or by r's
\* blocks (which = "blocks")
RECURSIVE MergeWith(_, _, _, _, _)
MergeWith(e, r, j, open, which) ==
    IF j > Len(e) THEN <<>>
    ELSE IF open = <<>>
         THEN IF e[j].k = "begin" /\ e[j].s # <<>>
              THEN MergeWith(e, r, j + 1, e[j].s, which)
              ELSE <<e[j]>> \o MergeWith(e, r, j + 1, <<>>, which)
         ELSE IF e[j].k = "end" /\ e[j].s = open
              THEN (IF which = "block" THEN SectionBlock(r, open) ELSE Blocks(r, open))
                       \o MergeWith(e, r, j + 1, <<>>, which)
              ELSE MergeWith(e, r, j + 1, open, which)

---------------------------------------------------------------------------
(* C1: when the prior file holds a begin-marker with no end-marker of the   *)
(* same name after it, so that the scan ends inside a section, the merge    *)
(* ends in a fatal error and the destination keeps its prior content.       *)
C1_MergeFailsClosed ==
    (/\ rpc \in {"write", "return"}
     /\ existing.exists /\ IsGoTemplate(tpath)
     /\ Unterminated(existing.text))
        => (pc = "fatal" /\ disk[opath] = existing)

(* C2: every line of the prior file read outside the marked sections, save  *)
(* the begin-markers with a name, is in the merged text, in the same order: *)
(* at each turn of the scan for the lines read so far, and in the buffer    *)
(* that is written.                                                         *)
C2_OutsidePreserved ==
    /\ rpc = "scan" =>
         IsSubseq(OutsideLines(SubSeq(existing.text, 1, pos)), newContent)
    /\ MergeEnded => IsSubseq(OutsideLines(existing.text), output)
    /\ (MergeEnded /\ rpc = "return" /\ shortWrites = 0) =>
         IsSubseq(OutsideLines(existing.text), disk[opath].text)

C2_Witness ==
    /\ MergeEnded /\ rpc = "return" /\ shortWrites = 0 /\ runNo = 1
    /\ Len(OutsideLines(existing.text)) >= 1
    /\ ClosedNames(existing.text) # {}
    /\ Len(output) > Len(OutsideLines(existing.text))
    /\ disk[opath].text = output

(* C3: every marked section of the prior file (a begin-marker for n and,    *)
(* later, the end-marker for n that closes it) is replaced, at its place    *)
(* between the lines outside, by exactly the block of R for n, from its     *)
(* begin line through its end line; by nothing when R has no section n.     *)
C3_SectionReplaced ==
    (MergeEnded /\ ~Unterminated(existing.text))
        => output = MergeWith(existing.text, Rendered, 1, <<>>, "block")

(* C4: the merged text holds a marker line of R for the name n only if the  *)
(* prior file closes an open section n: a name of R's markers that no       *)
(* section closed in the prior file bears, and no line outside its          *)
(* sections, is in no marker line of the merged text.                       *)
C4_NeverInserted ==
    MergeEnded =>
        \A j \in 1..Len(output) :
            (/\ output[j].k \in {"begin", "end"}
             /\ ~InSeq(output[j], OutsideLines(existing.text)))
                => output[j].s \in ClosedNames(existing.text)

(* C4, amended: a marker line of the merged text is a line the prior file   *)
(* holds outside its sections, or a line of what the extractor returns on R *)
(* for a name m whose section the prior file closes (the line may bear      *)
(* another name when it lies inside R's block for m); and when R has no     *)
(* begin-marker for any section the prior file closes, the merged text is   *)
(* the prior file's outside lines alone.                                    *)
C4_InsertedOnlyForClosed ==
    MergeEnded =>
        /\ \A j \in 1..Len(output) :
               output[j].k \in {"begin", "end"}
                   => \/ InSeq(output[j], OutsideLines(existing.text))
                      \/ \E m \in ClosedNames(existing.text) :
                             InSeq(output[j], Blocks(Rendered, m))
        /\ (\A m \in ClosedNames(existing.text) : ~InSeq(Begin(m), Rendered))
               => output = OutsideLines(existing.text)

\* R holds a section B that the prior file does not, and the prior file a
\* closed section A that R holds too
C4_Witness ==
    /\ MergeEnded /\ rpc = "return" /\ runNo = 1
    /\ ClosedNames(existing.text) = {SectionA}
    /\ ~InSeq(Begin(SectionB), existing.text)
    /\ InSeq(Begin(SectionA), Rendered)
    /\ InSeq(Begin(SectionB), Rendered)
    /\ ~InSeq(Begin(SectionB), output)
    /\ InSeq(Begin(SectionA), output)

(* C5: the written content is the rendered text R when no prior file is at  *)
(* the destination or the template is not a Go one; the scan of the prior   *)
(* file runs when, and only when, the template is a Go one and a prior file *)
(* is there.                                                                *)
C5_BypassExactly ==
    /\ rpc = "scan" => (existing.exists /\ IsGoTemplate(tpath))
    /\ rpc \in {"create", "write", "return"} =>
         IF existing.exists /\ IsGoTemplate(tpath)
         THEN pos = Len(existing.text)
         ELSE pos = 0 /\ output = Rendered
    /\ (rpc = "return" /\ shortWrites = 0 /\ ~(existing.exists /\ IsGoTemplate(tpath)))
         => disk[opath] = File(Rendered)

\* A prior file with a section at the destination of a template that is not
\* a Go one: the rendered text replaces it whole
C5_Witness ==
    /\ rpc = "return" /\ shortWrites = 0 /\ runNo = 1
    /\ existing.exists /\ ~IsGoTemplate(tpath)
    /\ ClosedNames(existing.text) # {}
    /\ Rendered # existing.text
    /\ disk[opath] = File(Rendered)

(* C6: a run repeated with the schema and the templates unchanged leaves    *)
(* every output file as the first run left it.                              *)
C6_RegenerationStable ==
    (runNo >= 2 /\ rpc = "return" /\ shortWrites = 0)
        => disk[opath] = existing

(* C7: once a step of the run has hit a fatal error (a schema that does not *)
(* parse, a template that does not parse or execute, a merge that ends      *)
(* inside a section, a write to the filesystem that fails), the run halts:  *)
(* no destination of a later pair, nor provider.go or the changelog, is     *)
(* created or written afterwards.                                           *)
C7_FailFast ==
    [][ (\/ pc = "fatal"
         \/ shortWrites > 0
         \/ unterminated \ {opath} # {})
            => (disk' = disk /\ created' = created) ]_vars

(* C8: when one of the schema documents does not parse, the run stops in    *)
(* the loading loop: renderTemplate is never called and no file is created, *)
(* also for the documents loaded before the malformed one.                  *)
C8_MalformedAbortsBeforeGeneration ==
    (\E j \in 1..Len(docs) : ~docs[j].ok)
        => /\ pc \in {"load", "fatal"}
           /\ rpc = "idle"
           /\ created = <<>>
           /\ unterminated = {} /\ shortWrites = 0

\* The run has stopped at a malformed second document, the first one loaded
C8_Witness ==
    /\ pc = "fatal"
    /\ Len(docs) = 2 /\ docs[1].ok /\ ~docs[2].ok
    /\ configs = << docs[1].name >>
    /\ created = <<>>

(* C10: in a run that completes, provider.go is rendered once, after the    *)
(* files of every entity and output kind, over the names of all the         *)
(* entities in the order they were loaded, one entry each.                  *)
C10_AggregateOnceInLoadOrder ==
    pc = "done" =>
        LET n == Len(templates)
            prov == { j \in 1..Len(created) : created[j].tpath = providerTemplate }
        IN  /\ prov = { Len(docs) * n + 1 }
            /\ \A j \in prov :
                   /\ created[j].opath = providerLocation
                   /\ created[j].cfg =
                          NamesConfig([m \in 1..Len(docs) |-> docs[m].name])
            /\ \A m \in 1..Len(docs), t \in 1..n :
                   created[(m - 1) * n + t] =
                       [tpath |-> templates[t].path,
                        opath |-> OutputPath(templates[t], docs[m].name),
                        cfg |-> EntityConfig(docs[m].name)]

\* A completed run over two entities of different names
C10_Witness ==
    /\ pc = "done"
    /\ Len(docs) = 2 /\ docs[1].name # docs[2].name
    /\ Len(created) = 2 * Len(templates) + 2

\* The entity's name of an entry of the log of created files
NameOf(entry) == entry.cfg.val[1]

\* tt is the template of the _test.go file beside the file of template tp
TestBeside(tt, tp) ==
    \/ tt = templates[3].path /\ tp = templates[2].path
    \/ tt = templates[5].path /\ tp = templates[4].path

(* C9: within one run, every destination path is written for one (entity,   *)
(* output kind) pair: for entities of different names no two pairs have the *)
(* same path.                                                               *)
C9_DestinationsUnique ==
    (docs[1].name # docs[2].name)
        => \A a, b \in 1..Len(created) :
               a # b => created[a].opath # created[b].opath

(* C9, amended: two pairs have the same path exactly when they are of the   *)
(* same output kind and their names have the same SnakeCase, or one is the  *)
(* _test.go file of an entity and the other the .go file, of the same       *)
(* prefix, of an entity whose SnakeCase name is the first's with "_test"    *)
(* after it.                                                                *)
C9_SamePathOnlyBySnakeCase ==
    \A a, b \in 1..Len(created) :
        a # b =>
            LET sa == SnakeCase(NameOf(created[a]))
                sb == SnakeCase(NameOf(created[b]))
            IN  created[a].opath = created[b].opath
                    <=> \/ created[a].tpath = created[b].tpath /\ sa = sb
                        \/ /\ TestBeside(created[a].tpath, created[b].tpath)
                           /\ sb = sa \o <<"_", "test">>
                        \/ /\ TestBeside(created[b].tpath, created[a].tpath)
                           /\ sa = sb \o <<"_", "test">>

\* Two entities whose names differ after SnakeCase, all their files created
C9_Witness ==
    /\ pc = "provider"
    /\ Len(created) = 2 * Len(templates)
    /\ docs[1].name = <<"Host", "-", "test">>
    /\ docs[2].name = <<"test">>
    /\ Cardinality({ created[j].opath : j \in 1..Len(created) }) = 2 * Len(templates)

---------------------------------------------------------------------------
(* What the claims on augmentation speak of *)

\* The lower case letters
LowerChars == { "a", "b", "d", "e", "h", "i", "p", "r", "s", "t", "v" }

\* The places of str where a word begins: its first letter, and every upper
\* case letter after the first
WordStarts(str) ==
    { q \in 1..Len(str) : q = 1 \/ IsUpper(str[q]) }

\* The place after the word that begins at q
WordEnd(str, q) ==
    LET later == { x \in WordStarts(str) : x > q }
    IN  IF later = {} THEN Len(str) + 1
        ELSE CHOOSE x \in later : \A y \in later : x <= y

\* The words of str by their places, in order
BoundaryWords(str) ==
    LET starts == WordStarts(str)
        nth(j) == CHOOSE q \in starts : Cardinality({ x \in starts : x <= q }) = j
    IN  [j \in 1..Cardinality(starts) |->
            SubSeq(str, nth(j), WordEnd(str, nth(j)) - 1)]

\* The place in attr.ModelName where the word j of `words` begins
RECURSIVE StartOfWord(_, _)
StartOfWord(ws, j) ==
    IF j = 1 THEN 1 ELSE StartOfWord(ws, j - 1) + Len(ws[j - 1])

\* augmentAttribute has derived attr.TfName: the loop ran and has ended
Derived == dpc = "done" /\ attrTfName # <<"x">>

\* The attributes a path of indices leads to
Paths == SeqsUpTo(1..(MaxSiblings + 1), 3) \ { <<>> }

RECURSIVE HasNode(_, _)
HasNode(attrs, path) ==
    /\ path # <<>>
    /\ Head(path) \in 1..Len(attrs)
    /\ Len(path) = 1 \/ HasNode(attrs[Head(path)].Attributes, Tail(path))

RECURSIVE NodeAt(_, _)
NodeAt(attrs, path) ==
    IF Len(path) = 1 THEN attrs[Head(path)]
    ELSE NodeAt(attrs[Head(path)].Attributes, Tail(path))

\* Every attribute above the one at `path` is a list or a set
UnderListsAndSets(attrs, path) ==
    \A n \in 1..(Len(path) - 1) :
        NodeAt(attrs, SubSeq(path, 1, n)).Type \in { "List", "Set" }

(* C11: augmentConfig applied to a config that augmentConfig has left       *)
(* changes no field of the config nor of any attribute at any depth.        *)
C11_AugmentIdempotent ==
    \A j \in 2..(Len(history) - 1) : history[j + 1] = history[j]

\* A config with a name to derive under a list, augmented twice: the first
\* call changed it
C11_Witness ==
    /\ Len(history) = 3
    /\ history[1] # history[2]
    /\ history[1].DsDescription = <<>>
    /\ Len(history[1].Attributes) = 1
    /\ history[1].Attributes[1].Type = "List"
    /\ Len(history[1].Attributes[1].Attributes) = 1
    /\ history[1].Attributes[1].Attributes[1].TfName = <<>>
    /\ history[2].Attributes[1].Attributes[1].TfName = <<"a", "_", "b">>
    /\ history[3] = history[2]

(* C12: the loop over the model name ends; each turn takes from the front   *)
(* of what is left a prefix that is not empty, up to and without the first  *)
(* upper case letter after its first letter, or all that is left when there *)
(* is none; the name is those prefixes in lower case joined with "_";       *)
(* "HTTPServer" gives "h_t_t_p_server" and "Id" gives "id".                 *)
C12_DeriveFollowsLoop ==
    /\ [](Derived =>
            /\ attrTfName =
                   Join([j \in 1..Len(BoundaryWords(attrModelName)) |->
                            ToLower(BoundaryWords(attrModelName)[j])], <<"_">>)
            /\ attrModelName = <<"H", "T", "T", "P", "S", "e", "r", "v", "e", "r">>
                   => attrTfName = <<"h", "_", "t", "_", "t", "_", "p", "_",
                                     "s", "e", "r", "v", "e", "r">>
            /\ attrModelName = <<"I", "d">> => attrTfName = <<"i", "d">>)
    /\ [][(dpc = "loop" /\ remainder # <<>>) =>
            LET n == Len(remainder) - Len(remainder')
            IN  /\ n >= 1
                /\ remainder' = SubSeq(remainder, n + 1, Len(remainder))
                /\ \A q \in 2..n : ~IsUpper(remainder[q])
                /\ remainder' # <<>> => IsUpper(remainder'[1])
                /\ derivedWords' =
                       Append(derivedWords, ToLower(SubSeq(remainder, 1, n)))]_vars
    /\ <>(dpc = "done")

\* The name of "HTTPServer" has been derived
C12_Witness ==
    /\ Derived
    /\ attrModelName = <<"H", "T", "T", "P", "S", "e", "r", "v", "e", "r">>
    /\ Len(derivedWords) = 5
    /\ attrTfName = <<"h", "_", "t", "_", "t", "_", "p", "_", "s", "e", "r", "v", "e", "r">>

(* C13: every upper case letter of the model name is a word of one letter,  *)
(* except an upper case letter with only lower case letters after it up to  *)
(* the end of the name: that letter and the letters after it are the last   *)
(* word.                                                                    *)
C13_UpperLettersAlone ==
    Derived =>
        \A q \in 1..Len(attrModelName) :
            IsUpper(attrModelName[q]) =>
                \E j \in 1..Len(derivedWords) :
                    /\ StartOfWord(derivedWords, j) = q
                    /\ IF \A x \in (q + 1)..Len(attrModelName) :
                              attrModelName[x] \in LowerChars
                       THEN /\ j = Len(derivedWords)
                            /\ derivedWords[j] =
                                   ToLower(SubSeq(attrModelName, q, Len(attrModelName)))
                       ELSE Len(derivedWords[j]) = 1

(* C13, amended: a word begins at the first letter of the model name and at *)
(* every upper case letter after it, and nowhere else; the word runs up to  *)
(* the next upper case letter or to the end of the name.  So an upper case  *)
(* letter is a word of one letter exactly when an upper case letter comes   *)
(* right after it or it is the last letter of the name.                     *)
C13_WordsBeginAtUpperLetters ==
    Derived =>
        /\ { StartOfWord(derivedWords, j) : j \in 1..Len(derivedWords) }
               = WordStarts(attrModelName)
        /\ \A j \in 1..Len(derivedWords) :
               LET q == StartOfWord(derivedWords, j)
               IN  /\ \A x \in (q + 1)..(q + Len(derivedWords[j]) - 1) :
                          ~IsUpper(attrModelName[x])
                   /\ IsUpper(attrModelName[q]) =>
                          (Len(derivedWords[j]) = 1
                               <=> \/ q = Len(attrModelName)
                                   \/ IsUpper(attrModelName[q + 1]))

\* An upper case letter with lower case letters after it, and an upper case
\* letter further on: the first word has two letters
C13_Witness ==
    /\ Derived
    /\ attrModelName = <<"A", "a", "B">>
    /\ derivedWords = << <<"a", "a">>, <<"b">> >>
    /\ attrTfName = <<"a", "a", "_", "b">>

(* C16: augmentConfig leaves a TfName that is not empty as it is; it gives  *)
(* a derived TfName to every attribute with an empty one that hangs from    *)
(* the config under attributes of type List or Set only; an attribute under *)
(* an attribute of another type is left wholly unchanged.                   *)
C16_DerivedOnlyUnderListsAndSets ==
    Len(history) >= 2 =>
        LET before == history[1].Attributes
            after == history[2].Attributes
        IN  \A path \in Paths :
                /\ HasNode(after, path) <=> HasNode(before, path)
                /\ HasNode(before, path) =>
                       LET b == NodeAt(before, path)
                           a == NodeAt(after, path)
                       IN  IF UnderListsAndSets(before, path)
                           THEN /\ a.ModelName = b.ModelName
                                /\ a.Type = b.Type
                                /\ Len(a.Attributes) = Len(b.Attributes)
                                /\ b.TfName # <<>> => a.TfName = b.TfName
                                /\ b.TfName = <<>> =>
                                       a.TfName = DerivedName(b.ModelName)
                           ELSE a = b

\* A list over an attribute of another type over an attribute, none named:
\* the first two get a name, the third does not
C16_Witness ==
    /\ Len(history) = 2
    /\ Len(history[1].Attributes) = 1
    /\ LET top == history[1].Attributes[1] IN
           /\ top.Type = "List" /\ top.TfName = <<>>
           /\ Len(top.Attributes) = 1
           /\ top.Attributes[1].Type = "String"
           /\ top.Attributes[1].TfName = <<>>
           /\ Len(top.Attributes[1].Attributes) = 2
           /\ top.Attributes[1].Attributes[1].TfName = <<>>
           /\ top.Attributes[1].Attributes[1].ModelName = <<"a", "B">>
    /\ LET top == history[2].Attributes[1] IN
           /\ top.TfName = <<"a", "_", "b">>
           /\ top.Attributes[1].TfName = <<"a", "_", "b">>
           /\ top.Attributes[1].Attributes[1].TfName = <<>>

---------------------------------------------------------------------------
(* What the claims on the extractor and the scan speak of *)

\* The turn of the scan at hand closes the open section
ClosesSection ==
    /\ rpc = "scan" /\ pos' = pos + 1
    /\ currentSectionName # <<>> /\ currentSectionName' = <<>>

\* What the turn of the scan at hand has put at the end of newContent
Appended == SubSeq(newContent', Len(newContent) + 1, Len(newContent'))

(* C14: what the extractor returns on R for the name n is empty when R has  *)
(* no begin-marker for n, and otherwise one range of lines of R, from a     *)
(* begin-marker for n through an end-marker for n, with no line after that  *)
(* end-marker.                                                              *)
C14_ExtractorShape ==
    [][ClosesSection =>
          LET n == currentSectionName
              x == Appended
          IN  IF ~InSeq(Begin(n), output)
              THEN x = <<>>
              ELSE \E b \in 1..Len(output) : \E e \in (b + 1)..Len(output) :
                       /\ output[b] = Begin(n)
                       /\ output[e] = End(n)
                       /\ \A m \in b..(e - 1) : output[m] # End(n)
                       /\ x = SubSeq(output, b, e)]_vars

(* C15: inside a section n, only an end-marker for n changes the state of   *)
(* the scan: a begin-marker of any name and an end-marker for another name  *)
(* are dropped, the state stays and nothing is appended; outside, an        *)
(* end-marker and a begin-marker with an empty name are copied as plain     *)
(* lines are.                                                               *)
C15_OnlyOwnEndCloses ==
    [][(rpc = "scan" /\ pos' = pos + 1) =>
          LET line == existing.text[pos + 1]
          IN  IF currentSectionName # <<>>
              THEN IF line = End(currentSectionName)
                   THEN currentSectionName' = <<>>
                   ELSE /\ currentSectionName' = currentSectionName
                        /\ newContent' = newContent
              ELSE (line.k \in {"plain", "end"} \/ line = Begin(<<>>))
                       => /\ currentSectionName' = <<>>
                          /\ newContent' = Append(newContent, line)]_vars

\* An end-marker read outside was copied; a begin-marker for B and an
\* end-marker for B, read inside section A, were dropped
C15_Witness ==
    /\ rpc = "scan" /\ pos = 3
    /\ existing.text[1] = End(SectionB)
    /\ existing.text[2] = Begin(SectionA)
    /\ existing.text[3] \in { Begin(SectionB), End(SectionB), Begin(SectionA) }
    /\ currentSectionName = SectionA
    /\ newContent = << End(SectionB) >>

(* C17: for a rendered text R and a prior file E whose merge succeeds,      *)
(* merging R into the file that the merge of R into E has written gives     *)
(* that file again.                                                         *)
C17_MergeIdempotent ==
    (/\ runNo = 2 /\ MergeEnded
     /\ earlier[1].merged
     /\ unterminated = {} /\ shortWrites = 0)
        => output = existing.text

(* C18: the destination is created or truncated only after the template was *)
(* parsed and executed and the scan of the prior file has ended: no step of *)
(* renderTemplate before os.Create, a failing one included, changes a file. *)
C18_CreateAfterRender ==
    [][/\ rpc \in {"open", "parse", "execute", "existing", "scan"} => disk' = disk
       /\ disk' # disk =>
              /\ rpc \in {"create", "write"}
              /\ pc # "fatal"
              /\ Merges(tpath, existing) => pos = Len(existing.text)
              /\ ~Merges(tpath, existing) => output = Rendered]_vars

\* The execution of the template has failed for a destination that holds a
\* prior file: the file is as it was
C18_Witness ==
    /\ pc = "fatal" /\ rpc = "execute"
    /\ disk[opath].exists
    /\ disk[opath].text \in PriorTexts
    /\ created # <<>>

====
